---- MODULE Spec2Model ----
(***************************************************************************)
(* Model of itr2_automation.py: the column resolver (_slugify,             *)
(* _pick_column), the four source parsers (read_form16, read_income_sheet, *)
(* read_tis, read_zerodha) and the tax calculator (_slab_tax_old_regime,   *)
(* compute_tax).                                                           *)
(*                                                                         *)
(* Text is a sequence of one-character strings, so that lower(), isalnum() *)
(* strip() and replace() are computed character by character.  Money is an *)
(* exact integer number of rupees; tax amounts carry an explicit           *)
(* denominator (hundredths, 2500ths of a rupee) so that the percentages   *)
(* are exact.  IEEE rounding of the Python floats is not modelled.             *)
(***************************************************************************)
EXTENDS Integers, Sequences, FiniteSets, TLC

VARIABLES
    pc,            \* position of the running operation
    reader,        \* which reader is running: form16 / income_sheet / tis / zerodha
    path,          \* the path argument of the reader
    raw,           \* the frame pd.read_csv / pd.read_excel produced for path
    df,            \* the frame _load_table returned (rows not entirely missing)
    label_col,     \* field_col / category_col / type_col of the reader
    amount_col,    \* amount_col of the reader
    extra_col,     \* description_col (income sheet, zerodha) / category_col (tis)
    i,             \* number of rows df.iterrows() has yielded so far
    data,          \* read_form16's Form16Data under construction
    breakdown,     \* read_income_sheet's / read_tis's IncomeBreakdown under construction
    gains,         \* read_zerodha's CapitalGainsBreakdown under construction
    deductions,    \* read_tis's deductions dict
    tax_paid,      \* read_tis's tax_paid
    ret,           \* what the reader returned (NoValue until it returns)
    err,           \* the InputFormatError raised (NoError until one is raised)
    columns,       \* _pick_column: df.columns
    alternatives,  \* _pick_column: the groups of synonyms
    picked,        \* _pick_column: the column returned, or the error raised
    taxable_income,\* _slab_tax_old_regime: its argument
    slab_result,   \* _slab_tax_old_regime: its result, in hundredths of a rupee
    form16,        \* compute_tax: form16
    other_income,  \* compute_tax: other_income
    zerodha,       \* compute_tax: zerodha
    tis_deductions,\* compute_tax: tis_deductions
    tis_tax_paid,  \* compute_tax: tis_tax_paid
    tax,           \* compute_tax: its locals and the TaxComputation returned
    called,        \* main: the functions called so far, in order
    completed,     \* main: those of them that have returned
    ais_income,    \* main: ais_income
    tis_income,    \* main: tis_income
    workbook,      \* main: the output workbook, "absent" until export_summary writes it
    status         \* main: "running", "0" once it returned 0, "raised" once an
                   \* exception left it

vars == <<pc, reader, path, raw, df, label_col, amount_col, extra_col, i, data,
          breakdown, gains, deductions, tax_paid, ret, err, columns,
          alternatives, picked, taxable_income, slab_result, form16,
          other_income, zerodha, tis_deductions, tis_tax_paid, tax, called,
          completed, ais_income, tis_income, workbook, status>>

parseVars == <<reader, path, raw, df, label_col, amount_col, extra_col, i, data,
               breakdown, gains, deductions, tax_paid, ret, err>>
pickVars == <<columns, alternatives, picked>>
slabVars == <<taxable_income, slab_result>>
taxVars == <<form16, other_income, zerodha, tis_deductions, tis_tax_paid, tax>>
mainVars == <<called, completed, ais_income, tis_income, workbook, status>>

(***************************************************************************)
(* Characters and the str methods the code uses                            *)
(***************************************************************************)
UpperChars == <<"A","B","C","D","E","F","G","H","I","J","K","L","M","N","O","P","Q","R","S","T","U","V","W","X","Y","Z">>
LowerChars == <<"a","b","c","d","e","f","g","h","i","j","k","l","m","n","o","p","q","r","s","t","u","v","w","x","y","z">>
DigitChars == <<"0","1","2","3","4","5","6","7","8","9">>

Range(s) == {s[k] : k \in DOMAIN s}

IndexOf(seq, x) == CHOOSE k \in DOMAIN seq : seq[k] = x

UpperSet == Range(UpperChars)

LowerSet == Range(LowerChars)

DigitSet == Range(DigitChars)

AlnumSet == UpperSet \cup LowerSet \cup DigitSet

LowerMap == [c \in UpperSet |-> LowerChars[IndexOf(UpperChars, c)]]

UpperMap == [c \in LowerSet |-> UpperChars[IndexOf(LowerChars, c)]]

DigitMap == [c \in DigitSet |-> IndexOf(DigitChars, c) - 1]

\* str.lower() on one character
LowerChar(c) == IF c \in UpperSet THEN LowerMap[c] ELSE c

\* str.upper() on one character
UpperChar(c) == IF c \in LowerSet THEN UpperMap[c] ELSE c

\* str.isalnum() on one character
IsAlnum(c) == c \in AlnumSet

Lower(s) == [k \in DOMAIN s |-> LowerChar(s[k])]

Upper(s) == [k \in DOMAIN s |-> UpperChar(s[k])]

\* s.replace(" ", "")
RemoveSpaces(s) == SelectSeq(s, LAMBDA c : c # " ")

RECURSIVE StripLeft(_, _)
StripLeft(s, c) == IF s # <<>> /\ Head(s) = c THEN StripLeft(Tail(s), c) ELSE s

RECURSIVE StripRight(_, _)
StripRight(s, c) ==
    IF s # <<>> /\ s[Len(s)] = c THEN StripRight(SubSeq(s, 1, Len(s) - 1), c) ELSE s

\* s.strip(c)
StripChar(s, c) == StripRight(StripLeft(s, c), c)

\* s.strip(): the only whitespace of the alphabet is the space
Strip(s) == StripChar(s, " ")

\* s.startswith(p)
StartsWith(s, p) == Len(s) >= Len(p) /\ SubSeq(s, 1, Len(p)) = p

\* "__" in s
HasDoubleUnderscore(s) == \E k \in 1..(Len(s) - 1) : s[k] = "_" /\ s[k + 1] = "_"

\* s.replace("__", "_"): one left-to-right pass over non-overlapping matches
RECURSIVE ReplaceDoubleUnderscore(_)
ReplaceDoubleUnderscore(s) ==
    IF Len(s) < 2 THEN s
    ELSE IF s[1] = "_" /\ s[2] = "_"
         THEN <<"_">> \o ReplaceDoubleUnderscore(SubSeq(s, 3, Len(s)))
         ELSE <<s[1]>> \o ReplaceDoubleUnderscore(Tail(s))

\* while "__" in slug: slug = slug.replace("__", "_")
RECURSIVE CollapseUnderscores(_)
CollapseUnderscores(s) ==
    IF HasDoubleUnderscore(s) THEN CollapseUnderscores(ReplaceDoubleUnderscore(s)) ELSE s

\* the for loop of _slugify: every non-alphanumeric character becomes "_"
Cleaned(s) == [k \in DOMAIN s |-> IF IsAlnum(LowerChar(s[k])) THEN LowerChar(s[k]) ELSE "_"]

_slugify(s) == StripChar(CollapseUnderscores(Cleaned(s)), "_")

(***************************************************************************)
(* _pick_column                                                            *)
(***************************************************************************)
NoColumn == <<"<", "n", "o", "n", "e", ">">>

\* slug_to_original = {_slugify(col): col for col in df.columns}: a later
\* column with the same slug replaces an earlier one
SlugToOriginal(cols, slug) ==
    cols[CHOOSE k \in DOMAIN cols :
            /\ _slugify(cols[k]) = slug
            /\ \A m \in DOMAIN cols : _slugify(cols[m]) = slug => m <= k]

SlugKnown(cols, slug) == \E k \in DOMAIN cols : _slugify(cols[k]) = slug

\* the names of all groups, in the order the two nested loops visit them
RECURSIVE Flatten(_)
Flatten(groups) == IF groups = <<>> THEN <<>> ELSE Head(groups) \o Flatten(Tail(groups))

\* a search that walks the columns first and the names second
RECURSIVE FirstColumnMatch(_, _)
FirstColumnMatch(cols, names) ==
    IF cols = <<>> THEN [found |-> FALSE, column |-> NoColumn, tried |-> <<>>]
    ELSE IF \E k \in DOMAIN names : _slugify(names[k]) = _slugify(Head(cols))
         THEN [found |-> TRUE, column |-> Head(cols), tried |-> <<>>]
         ELSE FirstColumnMatch(Tail(cols), names)

\* the nested loops of _pick_column: the first name whose slug is a column's
RECURSIVE FirstMatch(_, _)
FirstMatch(cols, names) ==
    IF names = <<>> THEN [found |-> FALSE, column |-> NoColumn, tried |-> <<>>]
    ELSE IF SlugKnown(cols, _slugify(Head(names)))
         THEN [found |-> TRUE, column |-> SlugToOriginal(cols, _slugify(Head(names))),
               tried |-> <<>>]
         ELSE FirstMatch(cols, Tail(names))

\* a lenient resolution: with no match, go on with the first column
PickColumnOrFirst(cols, groups) ==
    LET m == FirstMatch(cols, Flatten(groups))
    IN  IF m.found THEN m
        ELSE IF cols # <<>> THEN [found |-> TRUE, column |-> Head(cols), tried |-> <<>>]
        ELSE [found |-> FALSE, column |-> NoColumn, tried |-> groups]

\* _pick_column(df, *alternatives): the column, or the InputFormatError
\* whose message lists every group tried
_pick_column(cols, groups) ==
    LET m == FirstMatch(cols, Flatten(groups))
    IN  IF m.found THEN m ELSE [found |-> FALSE, column |-> NoColumn, tried |-> groups]

(***************************************************************************)
(* Tax calculation                                                         *)
(*                                                                         *)
(* Rates are whole percentages, so span * rate is a tax in hundredths of a *)
(* rupee.  The 4% cess of a tax of t hundredths is t/2500 rupees, so cess  *)
(* and tax payable are carried in 2500ths of a rupee.                      *)
(***************************************************************************)
\* no floor: the second argument as it is
Unfloored(a, b) == b

Max(a, b) == IF a >= b THEN a ELSE b

Min(a, b) == IF a <= b THEN a ELSE b

\* slabs of _slab_tax_old_regime: (width, rate in percent); the last width is math.inf
Slabs == << [width |-> 250000, inf |-> FALSE, rate |-> 0],
            [width |-> 250000, inf |-> FALSE, rate |-> 5],
            [width |-> 500000, inf |-> FALSE, rate |-> 20],
            [width |-> 0,      inf |-> TRUE,  rate |-> 30] >>

\* the for loop of _slab_tax_old_regime over the slabs left; tax in hundredths
RECURSIVE SlabLoop(_, _, _)
SlabLoop(slabs, remaining, taxSoFar) ==
    IF slabs = <<>> \/ remaining <= 0 THEN taxSoFar
    ELSE LET s    == Head(slabs)
             span == IF s.inf THEN remaining ELSE Min(remaining, s.width)
         IN  SlabLoop(Tail(slabs), remaining - span, taxSoFar + span * s.rate)

SlabTaxFlatTop(x) == SlabLoop(SubSeq(Slabs, 1, 3), x, 0)

_slab_tax_old_regime(x) == SlabLoop(Slabs, x, 0)

\* sum(mapping.values())
RECURSIVE SumValues(_)
SumValues(m) ==
    IF DOMAIN m = {} THEN 0
    ELSE LET k == CHOOSE k \in DOMAIN m : TRUE
         IN  m[k] + SumValues([j \in DOMAIN m \ {k} |-> m[j]])

\* Form16Data.salary_income
SalaryIncome(f) ==
    f.gross_salary - f.exempt_allowances - f.standard_deduction - f.professional_tax

\* IncomeBreakdown.total()
IncomeTotal(b) == b.interest_income + b.dividend_income + b.rental_income + b.other_income

\* CapitalGainsBreakdown.total()
GainsTotal(g) ==
    g.stcg_111a + g.ltcg_112a + g.speculative_income + g.non_speculative_income
    + g.other_gains

RebateStrict(total, slab) == IF total < 500000 THEN Min(1250000, slab) ELSE 0

\* rebate_87a of compute_tax, in hundredths, for a slab tax in hundredths
Rebate87a(total, slab) == IF total <= 500000 THEN Min(1250000, slab) ELSE 0

LtcgTaxableNoExemption(ltcg) == Max(0, ltcg)

\* ltcg_taxable of compute_tax
LtcgTaxable(ltcg) == Max(0, ltcg - 100000)

IncomeForSlabsUnfloored(total, stcg, ltcg) == total - stcg - ltcg

\* income_for_slabs of compute_tax
IncomeForSlabs(total, stcg, ltcg) == Max(0, total - stcg - ltcg)

NetPayableClamped(payable, prepaid) == Max(0, payable - 2500 * prepaid)

\* tax_payable_after_tds of compute_tax, in 2500ths
NetPayable(payable, prepaid) == payable - 2500 * prepaid

\* compute_tax: its locals and the fields of the TaxComputation it returns
compute_tax(f, o, z, td, tp) ==
    LET chapter_vi_total  == SumValues(f.deductions) + SumValues(td)
        gross_total_income ==
            SalaryIncome(f) + f.other_income_declared + IncomeTotal(o)
            + z.speculative_income + z.non_speculative_income + z.stcg_111a
            + z.ltcg_112a + z.other_gains
        total_income_post_deductions == Max(0, gross_total_income - chapter_vi_total)
        stcg == Max(0, z.stcg_111a)
        ltcg == Max(0, z.ltcg_112a)
        income_for_slabs == IncomeForSlabs(total_income_post_deductions, stcg, ltcg)
        slab_tax == _slab_tax_old_regime(income_for_slabs)
        rebate_87a == Rebate87a(total_income_post_deductions, slab_tax)
        slab_after == slab_tax - rebate_87a
        stcg_tax == 15 * Max(0, stcg)
        ltcg_tax == 10 * LtcgTaxable(ltcg)
        tax_before_cess == slab_after + stcg_tax + ltcg_tax
        cess == (4 * tax_before_cess) \div 4   \* 0.04 * tax_before_cess, as 2500ths
        tax_payable == 25 * tax_before_cess + cess
        tds_total == f.tds + tp
    IN  [ chapter_vi_total      |-> chapter_vi_total,
          gross_total_income    |-> gross_total_income,
          income_for_slabs      |-> income_for_slabs,
          slab_tax              |-> slab_tax,           \* before the rebate, hundredths
          slab_after            |-> slab_after,         \* after the rebate, hundredths
          stcg_tax              |-> stcg_tax,           \* hundredths
          ltcg_tax              |-> ltcg_tax,           \* hundredths
          tds_total             |-> tds_total,
          total_income          |-> total_income_post_deductions,
          tax_before_cess       |-> tax_before_cess,    \* hundredths
          health_education_cess |-> cess,               \* 2500ths
          tax_payable           |-> tax_payable,        \* 2500ths
          tax_payable_after_tds |-> NetPayable(tax_payable, tds_total),  \* 2500ths
          rebate_87a            |-> rebate_87a ]        \* hundredths

(***************************************************************************)
(* Values the dataclasses are constructed with                             *)
(***************************************************************************)
\* a cell of a frame: missing (NaN), text, or a number
NaN == [kind |-> "nan", text |-> <<>>, num |-> 0]

Text(s) == [kind |-> "str", text |-> s, num |-> 0]

Num(n) == [kind |-> "num", text |-> <<>>, num |-> n]

NoFrame == [columns |-> <<>>, rows |-> <<>>]

\* Form16Data()
NewForm16Data ==
    [ gross_salary |-> 0, exempt_allowances |-> 0, standard_deduction |-> 0,
      professional_tax |-> 0, other_income_declared |-> 0, tds |-> 0,
      deductions |-> <<>>, extras |-> <<>> ]

\* IncomeBreakdown()
NewIncomeBreakdown ==
    [ interest_income |-> 0, dividend_income |-> 0, rental_income |-> 0,
      other_income |-> 0, details |-> <<>> ]

\* CapitalGainsBreakdown()
NewCapitalGainsBreakdown ==
    [ stcg_111a |-> 0, ltcg_112a |-> 0, speculative_income |-> 0,
      non_speculative_income |-> 0, other_gains |-> 0, details |-> <<>> ]

NoValue == [returned |-> FALSE, value |-> <<>>]

NoError ==
    [ raised |-> FALSE, what |-> "", label |-> <<>>, amount |-> NaN, path |-> <<>>,
      tried |-> <<>> ]

NoPick == [found |-> FALSE, column |-> NoColumn, tried |-> <<>>]

\* the variables of the readers, when no reader runs
ParseIdle ==
    /\ reader = "none" /\ path = <<>> /\ raw = NoFrame /\ df = NoFrame
    /\ label_col = NoColumn /\ amount_col = NoColumn /\ extra_col = NoColumn
    /\ i = 0 /\ data = NewForm16Data /\ breakdown = NewIncomeBreakdown
    /\ gains = NewCapitalGainsBreakdown /\ deductions = <<>> /\ tax_paid = 0
    /\ ret = NoValue /\ err = NoError

PickIdle == columns = <<>> /\ alternatives = <<>> /\ picked = NoPick

SlabIdle == taxable_income = 0 /\ slab_result = 0

TaxIdle ==
    /\ form16 = NewForm16Data
    /\ other_income = NewIncomeBreakdown
    /\ zerodha = NewCapitalGainsBreakdown
    /\ tis_deductions = <<>> /\ tis_tax_paid = 0
    /\ tax = compute_tax(NewForm16Data, NewIncomeBreakdown, NewCapitalGainsBreakdown, <<>>, 0)

\* the variables of main, when main does not run
MainIdle ==
    /\ called = <<>> /\ completed = <<>>
    /\ ais_income = NewIncomeBreakdown /\ tis_income = NewIncomeBreakdown
    /\ workbook = "absent" /\ status = "running"

(***************************************************************************)
(* _slab_tax_old_regime called on its own                                  *)
(***************************************************************************)
SlabStep == 7
MaxSlabSteps == 12

\* the bracket edges, their neighbours, and a grid of incomes above, between
\* and below them (negative incomes included)
SlabIncomes ==
    {e + d : e \in {0, 250000, 500000, 1000000}, d \in -2..2}
    \cup {k * 100000 + j * SlabStep : k \in -2..MaxSlabSteps, j \in 0..2}

InitSlab ==
    /\ pc = "slab"
    /\ taxable_income \in SlabIncomes
    /\ slab_result = 0
    /\ ParseIdle /\ PickIdle /\ TaxIdle /\ MainIdle

SlabCall ==
    /\ pc = "slab"
    /\ slab_result' = _slab_tax_old_regime(taxable_income)
    /\ pc' = "slab_done"
    /\ UNCHANGED <<taxable_income, parseVars, pickVars, taxVars, mainVars>>

NextSlab == SlabCall

SpecSlab == InitSlab /\ [][NextSlab]_vars

\* C1: for every taxable income x, _slab_tax_old_regime(x) is the fixed
\* four-bracket schedule: 0 up to 250,000; 5% of the excess over 250,000 up to
\* 500,000; 12,500 + 20% of the excess over 500,000 up to 1,000,000;
\* 112,500 + 30% of the excess over 1,000,000 above; and 0 for x <= 0.
\* (slab_result is in hundredths of a rupee.)
C1_SlabSchedule ==
    pc = "slab_done" =>
        LET x == taxable_income
        IN  /\ x <= 0 => slab_result = 0
            /\ x <= 250000 => slab_result = 0
            /\ (250000 < x /\ x <= 500000) => slab_result = 5 * (x - 250000)
            /\ (500000 < x /\ x <= 1000000) =>
                   slab_result = 100 * 12500 + 20 * (x - 500000)
            /\ x > 1000000 => slab_result = 100 * 112500 + 30 * (x - 1000000)

\* a call in the top bracket has returned
C1_Witness == pc = "slab_done" /\ taxable_income > 1000000 /\ slab_result > 100 * 112500

\* a call with a negative income has returned
C1_WitnessNegative == pc = "slab_done" /\ taxable_income < 0

(***************************************************************************)
(* compute_tax called on aggregates drawn from small sets                  *)
(***************************************************************************)
Form16Inputs ==
    [ gross_salary          : {0, 550000, 1200000},
      exempt_allowances     : {0, 50000},
      standard_deduction    : {0, 50000},
      professional_tax      : {0, 2400},
      other_income_declared : {0, 30000},
      tds                   : {0, 80000},
      deductions            : { <<>>,
                                (<<"8","0","C">> :> 150000),
                                (<<"8","0","C">> :> 150000) @@ (<<"8","0","D">> :> 25000) },
      extras                : { <<>> } ]

IncomeInputs ==
    { [NewIncomeBreakdown EXCEPT !.interest_income = 10000, !.dividend_income = 5000],
      [NewIncomeBreakdown EXCEPT !.rental_income = -20000, !.other_income = 3000],
      NewIncomeBreakdown }

GainsInputs ==
    [ stcg_111a              : {-30000, 0, 150000},
      ltcg_112a              : {-50000, 0, 120000},
      speculative_income     : {-5000, 0},
      non_speculative_income : {0},
      other_gains            : {0, 7000},
      details                : { <<>> } ]

TisDeductionInputs == { <<>>, (<<"8","0","G">> :> 600000) }

TisTaxPaidInputs == {0, 200000}

InitTax ==
    /\ pc = "compute_tax"
    /\ form16 \in Form16Inputs
    /\ other_income \in IncomeInputs
    /\ zerodha \in GainsInputs
    /\ tis_deductions \in TisDeductionInputs
    /\ tis_tax_paid \in TisTaxPaidInputs
    /\ tax = compute_tax(NewForm16Data, NewIncomeBreakdown, NewCapitalGainsBreakdown, <<>>, 0)
    /\ ParseIdle /\ PickIdle /\ SlabIdle /\ MainIdle

ComputeTaxCall ==
    /\ pc = "compute_tax"
    /\ tax' = compute_tax(form16, other_income, zerodha, tis_deductions, tis_tax_paid)
    /\ pc' = "tax_done"
    /\ UNCHANGED <<form16, other_income, zerodha, tis_deductions, tis_tax_paid,
                   parseVars, pickVars, slabVars, mainVars>>

NextTax == ComputeTaxCall

SpecTax == InitTax /\ [][NextTax]_vars

\* C2: the rebate is applied exactly when total income post-deductions is
\* <= 500,000: then rebate_87a = min(12,500, slab tax) and the slab
\* contribution is the slab tax less the rebate; above 500,000 the rebate is 0
\* and the slab tax is unchanged.  At total income exactly 500,000 with slab
\* tax 12,500 the rebate is 12,500 and the slab contribution is 0.
C2_Rebate ==
    pc = "tax_done" =>
        /\ tax.total_income <= 500000 =>
               /\ tax.rebate_87a = Min(100 * 12500, tax.slab_tax)
               /\ tax.slab_after = tax.slab_tax - tax.rebate_87a
        /\ tax.total_income > 500000 =>
               /\ tax.rebate_87a = 0
               /\ tax.slab_after = tax.slab_tax
        /\ (tax.total_income = 500000 /\ tax.slab_tax = 100 * 12500) =>
               /\ tax.rebate_87a = 100 * 12500
               /\ tax.slab_after = 0
        /\ tax.tax_before_cess - 15 * Max(0, zerodha.stcg_111a)
               - 10 * Max(0, Max(0, zerodha.ltcg_112a) - 100000) = tax.slab_after

\* the boundary case: total income exactly 500,000, slab tax 12,500
C2_Witness ==
    /\ pc = "tax_done"
    /\ tax.total_income = 500000
    /\ tax.slab_tax = 100 * 12500
    /\ tax.rebate_87a = 100 * 12500

\* C3: tax_before_cess = slab tax after rebate + 15% of max(0, stcg_111a)
\* + 10% of max(0, max(0, ltcg_112a) - 100,000); cess = 4% of it; tax_payable
\* is their sum.  For gross salary 1,200,000, exempt 50,000, standard deduction
\* 50,000, professional tax 2,400, TDS 80,000, STCG 150,000, LTCG 120,000 and
\* nothing else: tax_before_cess 166,280, cess 6,651.20, tax_payable
\* 172,931.20, net payable 92,931.20.
IsSpecScenario ==
    /\ form16 = [NewForm16Data EXCEPT !.gross_salary = 1200000,
                    !.exempt_allowances = 50000, !.standard_deduction = 50000,
                    !.professional_tax = 2400, !.tds = 80000]
    /\ other_income = NewIncomeBreakdown
    /\ zerodha = [NewCapitalGainsBreakdown EXCEPT !.stcg_111a = 150000,
                     !.ltcg_112a = 120000]
    /\ tis_deductions = <<>>
    /\ tis_tax_paid = 0

C3_TaxBeforeCess ==
    pc = "tax_done" =>
        /\ tax.tax_before_cess =
               tax.slab_after + 15 * Max(0, zerodha.stcg_111a)
               + 10 * Max(0, Max(0, zerodha.ltcg_112a) - 100000)
        \* cess = 4% of tax_before_cess: 100 * cess = 4 * (25 * tbc) in 2500ths,
        \* written divided by 25 to stay within 32 bits
        /\ 4 * tax.health_education_cess = 4 * tax.tax_before_cess
        \* tax_payable = tax_before_cess + cess
        /\ tax.tax_payable = 25 * tax.tax_before_cess + tax.health_education_cess
        /\ IsSpecScenario =>
               /\ tax.tax_before_cess = 100 * 166280
               \* 6,651.20, 172,931.20 and 92,931.20 rupees, as hundredths * 25
               /\ tax.health_education_cess = 25 * 665120
               /\ tax.tax_payable = 25 * 17293120
               /\ tax.tax_payable_after_tds = 25 * 9293120

\* the scenario of the specification has been computed
C3_Witness == pc = "tax_done" /\ IsSpecScenario /\ tax.slab_tax = 100 * 141780

\* C4: total_income = max(0, G - D), G = salary income +
\* other-income-declared + combined income total + the five capital-gains
\* buckets (signed), D = sum of the salary deductions + sum of the external
\* deductions; the slab base is max(0, total_income - max(0, stcg_111a)
\* - max(0, ltcg_112a)); so it never exceeds total_income and equals
\* total_income less the floored gains whenever that is non-negative.
GrossOf(f, o, z) ==
    (f.gross_salary - f.exempt_allowances - f.standard_deduction - f.professional_tax)
    + f.other_income_declared
    + (o.interest_income + o.dividend_income + o.rental_income + o.other_income)
    + (z.stcg_111a + z.ltcg_112a + z.speculative_income + z.non_speculative_income
       + z.other_gains)

DeductibleOf(f, td) == SumValues(f.deductions) + SumValues(td)

FlooredGains(z) == Max(0, z.stcg_111a) + Max(0, z.ltcg_112a)

C4_TotalIncomeAndSlabBase ==
    pc = "tax_done" =>
        LET G == GrossOf(form16, other_income, zerodha)
            D == DeductibleOf(form16, tis_deductions)
        IN  /\ tax.total_income = Max(0, G - D)
            /\ tax.income_for_slabs = Max(0, tax.total_income - FlooredGains(zerodha))
            /\ tax.income_for_slabs <= tax.total_income
            /\ tax.total_income - FlooredGains(zerodha) >= 0 =>
                   tax.income_for_slabs = tax.total_income - FlooredGains(zerodha)
            /\ tax.slab_tax = _slab_tax_old_regime(tax.income_for_slabs)

\* the special-rate gains exceed the total income: the slab base is floored
C4_Witness ==
    /\ pc = "tax_done"
    /\ tax.total_income - FlooredGains(zerodha) < 0
    /\ tax.income_for_slabs = 0

\* a loss in a special-rate bucket and deductions that bite
C4_WitnessLoss ==
    /\ pc = "tax_done"
    /\ zerodha.stcg_111a < 0
    /\ DeductibleOf(form16, tis_deductions) > 0
    /\ tax.income_for_slabs > 0

\* C5: tax_payable_after_tds = tax_payable - (form16.tds + tis_tax_paid), not
\* clamped: whenever the prepaid total exceeds tax_payable it is strictly
\* negative.  (tax_payable and tax_payable_after_tds are in 2500ths.)
C5_NetPayableNotClamped ==
    pc = "tax_done" =>
        LET prepaid == form16.tds + tis_tax_paid
        IN  /\ tax.tax_payable_after_tds = tax.tax_payable - 2500 * prepaid
            /\ 2500 * prepaid > tax.tax_payable => tax.tax_payable_after_tds < 0

\* a refund: the prepaid tax exceeds the tax payable
C5_Witness ==
    /\ pc = "tax_done"
    /\ 2500 * (form16.tds + tis_tax_paid) > tax.tax_payable
    /\ tax.tax_payable > 0
    /\ tax.tax_payable_after_tds < 0

(***************************************************************************)
(* _pick_column called on header lists drawn from small sets               *)
(***************************************************************************)
MaxColumns == 2

Headers ==
    { <<"S","e","c","t","i","o","n"," ","8","0","C"," ","(","P","F",")">>, <<"s","e","c","t","i","o","n","_","8","0","c","_","p","f">>, <<"S","E","C","T","I","O","N"," ","8","0","C"," ","P","F">>, <<"A","m","o","u","n","t">>,
      <<"V","a","l","u","e">>, <<"F","i","e","l","d">>, <<"N","o","t","e","s">> }

\* df.columns: distinct headers
ColumnLists ==
    {c \in UNION {[1..n -> Headers] : n \in 0..MaxColumns} :
        \A a, b \in DOMAIN c : a # b => c[a] # c[b]}

AlternativeLists ==
    { << <<<<"f","i","e","l","d">>, <<"s","e","c","t","i","o","n">>, <<"c","o","m","p","o","n","e","n","t">>>> >>,
      << <<<<"a","m","o","u","n","t">>, <<"v","a","l","u","e">>, <<"a","m","t">>>> >>,
      << <<<<"s","e","c","t","i","o","n","_","8","0","c","_","p","f">>, <<"a","m","o","u","n","t">>>> >>,
      << <<<<"S","e","c","t","i","o","n","-","8","0","C","/","P","F">>>>, <<<<"V","A","L","U","E">>, <<"f","i","e","l","d">>>> >>,
      << <<<<"n","o","t","e","s">>, <<"v","a","l","u","e">>>>, <<<<"s","e","c","t","i","o","n"," ","8","0","c"," ","p","f">>>> >> }

InitPick ==
    /\ pc = "pick_column"
    /\ columns \in ColumnLists
    /\ alternatives \in AlternativeLists
    /\ picked = NoPick
    /\ ParseIdle /\ SlabIdle /\ TaxIdle /\ MainIdle

PickColumnCall ==
    /\ pc = "pick_column"
    /\ picked' = _pick_column(columns, alternatives)
    /\ pc' = "pick_done"
    /\ UNCHANGED <<columns, alternatives, parseVars, slabVars, taxVars, mainVars>>

NextPick == PickColumnCall

SpecPick == InitPick /\ [][NextPick]_vars

\* The slug as the claim words it: lowercase, every run of non-alphanumeric
\* characters one "_", none at either end.  One pass, no replace loop.
RECURSIVE SlugWalk(_, _, _)
SlugWalk(s, out, gap) ==
    IF s = <<>> THEN out
    ELSE LET c == LowerChar(Head(s))
         IN  IF IsAlnum(c)
             THEN SlugWalk(Tail(s),
                           out \o (IF gap /\ out # <<>> THEN <<"_">> ELSE <<>>) \o <<c>>,
                           FALSE)
             ELSE SlugWalk(Tail(s), out, TRUE)

SlugOf(s) == SlugWalk(s, <<>>, FALSE)

SameSlug(a, b) == SlugOf(a) = SlugOf(b)

\* the synonyms in priority order (first group first, first name first) that
\* match some header by slug
MatchingSynonyms(cols, groups) ==
    {k \in DOMAIN Flatten(groups) : \E c \in DOMAIN cols : SameSlug(cols[c], Flatten(groups)[k])}

FirstIndex(S) == CHOOSE k \in S : \A m \in S : k <= m

ThreeSpellings == { <<"S","e","c","t","i","o","n"," ","8","0","C"," ","(","P","F",")">>, <<"s","e","c","t","i","o","n","_","8","0","c","_","p","f">>, <<"S","E","C","T","I","O","N"," ","8","0","C"," ","P","F">> }

\* C10: _pick_column compares headers and synonyms by slug only, so
\* "Section 80C (PF)", "section_80c_pf" and "SECTION 80C PF" resolve alike; and
\* the column returned is the one matching the first synonym (first group,
\* first name) that matches any header, whatever the position of the columns.
C10_PickBySlugAndPriority ==
    pc = "pick_done" =>
        LET names == Flatten(alternatives)
            hits  == MatchingSynonyms(columns, alternatives)
        IN  /\ picked.found <=> hits # {}
            /\ picked.found =>
                   /\ picked.column \in Range(columns)
                   /\ SameSlug(picked.column, names[FirstIndex(hits)])
            /\ \A h \in ThreeSpellings :
                   (columns = <<h>> /\ hits # {}) => picked.column = h
            /\ \A h \in ThreeSpellings : _slugify(h) = <<"s","e","c","t","i","o","n","_","8","0","c","_","p","f">>

\* a lower-priority synonym matches the first column, the first synonym
\* matches the second column, a spelling of "Section 80C (PF)": it is returned
C10_Witness ==
    /\ pc = "pick_done"
    /\ Len(columns) = 2
    /\ alternatives = << <<<<"s","e","c","t","i","o","n","_","8","0","c","_","p","f">>, <<"a","m","o","u","n","t">>>> >>
    /\ columns[1] = <<"A","m","o","u","n","t">>
    /\ columns[2] = <<"S","e","c","t","i","o","n"," ","8","0","C"," ","(","P","F",")">>
    /\ picked.found
    /\ picked.column = columns[2]

(***************************************************************************)
(* The static tables                                                       *)
(***************************************************************************)
FORM16_FIELD_MAP ==
    (<<"g","r","o","s","s","_","s","a","l","a","r","y">> :> "gross_salary") @@   \* gross_salary
    (<<"g","r","o","s","s","_","s","a","l","a","r","y","_","a">> :> "gross_salary") @@   \* gross_salary_a
    (<<"g","r","o","s","s","_","t","o","t","a","l","_","i","n","c","o","m","e">> :> "gross_salary") @@   \* gross_total_income
    (<<"a","l","l","o","w","a","n","c","e","s","_","t","o","_","t","h","e","_","e","x","t","e","n","t","_","e","x","e","m","p","t","_","u","n","d","e","r","_","s","e","c","t","i","o","n","1","0">> :> "exempt_allowances") @@   \* allowances_to_the_extent_exempt_under_section10
    (<<"e","x","e","m","p","t","_","a","l","l","o","w","a","n","c","e","s">> :> "exempt_allowances") @@   \* exempt_allowances
    (<<"s","t","a","n","d","a","r","d","_","d","e","d","u","c","t","i","o","n">> :> "standard_deduction") @@   \* standard_deduction
    (<<"s","t","a","n","d","a","r","d","_","d","e","d","u","c","t","i","o","n","_","u","s","_","1","6","i","a">> :> "standard_deduction") @@   \* standard_deduction_us_16ia
    (<<"p","r","o","f","e","s","s","i","o","n","_","t","a","x">> :> "professional_tax") @@   \* profession_tax
    (<<"p","r","o","f","e","s","s","i","o","n","a","l","_","t","a","x">> :> "professional_tax") @@   \* professional_tax
    (<<"s","e","c","t","i","o","n","_","1","6","_","i","i","i","_","p","r","o","f","e","s","s","i","o","n","a","l","_","t","a","x">> :> "professional_tax") @@   \* section_16_iii_professional_tax
    (<<"o","t","h","e","r","_","i","n","c","o","m","e","_","d","e","c","l","a","r","e","d">> :> "other_income_declared") @@   \* other_income_declared
    (<<"o","t","h","e","r","_","i","n","c","o","m","e","_","f","r","o","m","_","h","o","u","s","e","_","p","r","o","p","e","r","t","y","_","d","e","c","l","a","r","e","d">> :> "other_income_declared") @@   \* other_income_from_house_property_declared
    (<<"t","d","s">> :> "tds") @@   \* tds
    (<<"t","a","x","_","d","e","d","u","c","t","e","d","_","a","t","_","s","o","u","r","c","e">> :> "tds") @@   \* tax_deducted_at_source
    (<<"t","a","x","_","d","e","d","u","c","t","e","d">> :> "tds")   \* tax_deducted

INCOME_CATEGORY_MAP ==
    (<<"i","n","t","e","r","e","s","t">> :> "interest_income") @@   \* interest
    (<<"i","n","t","e","r","e","s","t","_","i","n","c","o","m","e">> :> "interest_income") @@   \* interest_income
    (<<"b","a","n","k","_","i","n","t","e","r","e","s","t">> :> "interest_income") @@   \* bank_interest
    (<<"s","a","v","i","n","g","s","_","i","n","t","e","r","e","s","t">> :> "interest_income") @@   \* savings_interest
    (<<"d","i","v","i","d","e","n","d">> :> "dividend_income") @@   \* dividend
    (<<"d","i","v","i","d","e","n","d","_","i","n","c","o","m","e">> :> "dividend_income") @@   \* dividend_income
    (<<"r","e","n","t">> :> "rental_income") @@   \* rent
    (<<"r","e","n","t","a","l","_","i","n","c","o","m","e">> :> "rental_income") @@   \* rental_income
    (<<"h","o","u","s","e","_","p","r","o","p","e","r","t","y">> :> "rental_income") @@   \* house_property
    (<<"o","t","h","e","r","_","i","n","c","o","m","e">> :> "other_income") @@   \* other_income
    (<<"o","t","h","e","r","s">> :> "other_income") @@   \* others
    (<<"s","p","e","c","u","l","a","t","i","v","e","_","i","n","c","o","m","e">> :> "other_income")   \* speculative_income

ZERODHA_CATEGORY_MAP ==
    (<<"s","t","c","g","_","e","q","u","i","t","y">> :> "stcg_111a") @@   \* stcg_equity
    (<<"s","t","c","g","_","e","q","u","i","t","y","_","d","e","l","i","v","e","r","y">> :> "stcg_111a") @@   \* stcg_equity_delivery
    (<<"l","t","c","g","_","e","q","u","i","t","y">> :> "ltcg_112a") @@   \* ltcg_equity
    (<<"l","t","c","g","_","e","q","u","i","t","y","_","d","e","l","i","v","e","r","y">> :> "ltcg_112a") @@   \* ltcg_equity_delivery
    (<<"i","n","t","r","a","d","a","y","_","e","q","u","i","t","y">> :> "speculative_income") @@   \* intraday_equity
    (<<"s","p","e","c","u","l","a","t","i","v","e">> :> "speculative_income") @@   \* speculative
    (<<"f","u","t","u","r","e","s","_","o","p","t","i","o","n","s">> :> "non_speculative_income") @@   \* futures_options
    (<<"f","n","o">> :> "non_speculative_income") @@   \* fno
    (<<"c","u","r","r","e","n","c","y","_","f","n","o">> :> "non_speculative_income") @@   \* currency_fno
    (<<"c","o","m","m","o","d","i","t","y","_","f","n","o">> :> "non_speculative_income")   \* commodity_fno

\* mapping.get(key, default)
Get(map, key, default) == IF key \in DOMAIN map THEN map[key] ELSE default

\* mapping[key] = mapping.get(key, 0.0) + v
AddTo(map, key, v) ==
    [k \in DOMAIN map \cup {key} |->
        IF k = key THEN Get(map, key, 0) + v ELSE map[k]]

(***************************************************************************)
(* Cells: str(), pd.isna(), float()                                        *)
(***************************************************************************)
\* the decimal digits of a natural number
RECURSIVE DigitsOf(_)
DigitsOf(n) ==
    IF n < 10 THEN <<DigitChars[n + 1]>>
    ELSE DigitsOf(n \div 10) \o <<DigitChars[(n % 10) + 1]>>

\* str(cell): a missing cell is the float nan, whose str is "nan"; a number
\* is a float, printed with its ".0"
PyStr(cell) ==
    IF cell.kind = "nan" THEN <<"n","a","n">>
    ELSE IF cell.kind = "str" THEN cell.text
    ELSE (IF cell.num < 0 THEN <<"-">> \o DigitsOf(-cell.num) ELSE DigitsOf(cell.num))
         \o <<".", "0">>

\* pd.isna(cell)
IsNa(cell) == cell.kind = "nan"

IsDigits(s) == s # <<>> /\ \A k \in DOMAIN s : s[k] \in DigitSet

RECURSIVE DigitsValue(_)
DigitsValue(s) ==
    IF s = <<>> THEN 0
    ELSE 10 * DigitsValue(SubSeq(s, 1, Len(s) - 1)) + DigitMap[s[Len(s)]]

\* whether float(cell) returns: a number, or text that is an optionally signed
\* run of digits between optional blanks (the texts of the model hold no
\* ".", exponent, "inf" or "nan")
CanFloat(cell) ==
    \/ cell.kind = "num"
    \/ /\ cell.kind = "str"
       /\ LET t == Strip(cell.text)
          IN  \/ IsDigits(t)
              \/ t # <<>> /\ Head(t) \in {"-", "+"} /\ IsDigits(Tail(t))

\* float(cell), where it returns
PyFloat(cell) ==
    IF cell.kind = "num" THEN cell.num
    ELSE LET t == Strip(cell.text)
         IN  IF Head(t) = "-" THEN -DigitsValue(Tail(t))
             ELSE IF Head(t) = "+" THEN DigitsValue(Tail(t))
             ELSE DigitsValue(t)

\* row[col]
Cell(frame, row, col) == row[IndexOf(frame.columns, col)]

\* a search for the optional column by slug, as _pick_column does
RECURSIVE FirstPresentBySlug(_, _)
FirstPresentBySlug(cols, names) ==
    IF names = <<>> THEN NoColumn
    ELSE IF SlugKnown(cols, _slugify(Head(names)))
         THEN SlugToOriginal(cols, _slugify(Head(names)))
    ELSE FirstPresentBySlug(cols, Tail(names))

\* `possible in df.columns` for the optional columns: exact names, first wins
RECURSIVE FirstPresent(_, _)
FirstPresent(cols, names) ==
    IF names = <<>> THEN NoColumn
    ELSE IF Head(names) \in Range(cols) THEN Head(names)
    ELSE FirstPresent(cols, Tail(names))

(***************************************************************************)
(* _load_table                                                             *)
(***************************************************************************)
\* path.suffix.lower(): from the last "." on, "" when the name has none
RECURSIVE SuffixFrom(_, _)
SuffixFrom(s, k) ==
    IF k = 0 THEN <<>>
    ELSE IF s[k] = "." THEN Lower(SubSeq(s, k, Len(s)))
    ELSE SuffixFrom(s, k - 1)

Suffix(p) == SuffixFrom(p, Len(p))

\* df.dropna(how="all"): the rows that are not missing in every column
DropAllNa(frame) ==
    [frame EXCEPT !.rows = SelectSeq(frame.rows,
                                     LAMBDA r : \E k \in DOMAIN r : ~IsNa(r[k]))]

\* df.empty
IsEmpty(frame) == Len(frame.rows) = 0 \/ Len(frame.columns) = 0

Raise(what, label, amount, p, tried) ==
    [ raised |-> TRUE, what |-> what, label |-> label, amount |-> amount, path |-> p,
      tried |-> tried ]

\* _load_table(path), where pd.read_csv / pd.read_excel returned `frame`
_load_table(p, frame) ==
    IF Suffix(p) \notin {<<".","c","s","v">>, <<".","x","l","s","x">>, <<".","x","l","s">>, <<".","x","l","s","m">>}
    THEN [ok |-> FALSE, df |-> NoFrame,
          err |-> Raise("Unsupported file extension", <<>>, NaN, p, <<>>)]
    ELSE IF IsEmpty(frame)
    THEN [ok |-> FALSE, df |-> NoFrame, err |-> Raise("No rows found", <<>>, NaN, p, <<>>)]
    ELSE IF IsEmpty(DropAllNa(frame))
    THEN [ok |-> FALSE, df |-> NoFrame,
          err |-> Raise("No usable rows found", <<>>, NaN, p, <<>>)]
    ELSE [ok |-> TRUE, df |-> DropAllNa(frame), err |-> NoError]

(***************************************************************************)
(* The readers: their columns                                              *)
(***************************************************************************)
Readers == {"form16", "income_sheet", "tis", "zerodha"}

\* the synonyms of the identifying-label column
LabelAlternatives(r) ==
    CASE r = "form16"       -> <<<<"f","i","e","l","d">>, <<"s","e","c","t","i","o","n">>, <<"c","o","m","p","o","n","e","n","t">>>>
      [] r = "income_sheet" -> <<<<"c","a","t","e","g","o","r","y">>, <<"h","e","a","d">>, <<"t","y","p","e">>>>
      [] r = "tis"          -> <<<<"t","y","p","e">>, <<"e","n","t","r","y","_","t","y","p","e">>>>
      [] r = "zerodha"      -> <<<<"t","y","p","e">>, <<"c","a","t","e","g","o","r","y">>>>

\* the synonyms of the amount column
AmountAlternatives(r) ==
    CASE r = "form16"       -> <<<<"a","m","o","u","n","t">>, <<"v","a","l","u","e">>, <<"a","m","t">>>>
      [] r = "income_sheet" -> <<<<"a","m","o","u","n","t">>, <<"v","a","l","u","e">>, <<"r","e","p","o","r","t","e","d","_","a","m","o","u","n","t">>>>
      [] r = "tis"          -> <<<<"a","m","o","u","n","t">>, <<"v","a","l","u","e">>>>
      [] r = "zerodha"      -> <<<<"a","m","o","u","n","t">>, <<"n","e","t">>, <<"p","n","l">>>>

\* the exact names of the optional column (read_form16 has none)
OptionalNames(r) ==
    CASE r = "form16"       -> <<>>
      [] r = "income_sheet" -> <<<<"d","e","s","c","r","i","p","t","i","o","n">>, <<"d","e","t","a","i","l","s">>, <<"s","o","u","r","c","e">>>>
      [] r = "tis"          -> <<<<"c","a","t","e","g","o","r","y">>, <<"s","e","c","t","i","o","n">>, <<"d","e","s","c","r","i","p","t","i","o","n">>>>
      [] r = "zerodha"      -> <<<<"d","e","s","c","r","i","p","t","i","o","n">>, <<"s","e","g","m","e","n","t">>, <<"n","o","t","e","s">>>>

\* the word the reader's message uses for the label
LabelWord(r) ==
    CASE r = "form16"       -> "field"
      [] r = "income_sheet" -> "category"
      [] r = "tis"          -> "entry"
      [] r = "zerodha"      -> "trade type"

(***************************************************************************)
(* The readers: one row                                                    *)
(***************************************************************************)
\* the head of every reader's loop body: the two `continue`s and the raise
RowStatus(label, amount) ==
    IF Strip(PyStr(label)) = <<>> THEN "skip"
    ELSE IF IsNa(amount) THEN "skip"
    ELSE IF ~CanFloat(amount) THEN "raise"
    ELSE "accept"

\* a two-way classification: a named total, or else an extra
Form16AddTwoWay(d, raw_field, v) ==
    LET field_slug == _slugify(raw_field)
        target     == Get(FORM16_FIELD_MAP, field_slug, "None")
    IN  IF target = "gross_salary" THEN [d EXCEPT !.gross_salary = @ + v]
        ELSE IF target = "exempt_allowances" THEN [d EXCEPT !.exempt_allowances = @ + v]
        ELSE IF target = "standard_deduction" THEN [d EXCEPT !.standard_deduction = @ + v]
        ELSE IF target = "professional_tax" THEN [d EXCEPT !.professional_tax = @ + v]
        ELSE IF target = "other_income_declared"
             THEN [d EXCEPT !.other_income_declared = @ + v]
        ELSE IF target = "tds" THEN [d EXCEPT !.tds = @ + v]
        ELSE [d EXCEPT !.extras = AddTo(@, raw_field, v)]

\* read_form16, lines 213-231: the three-way classification
Form16Add(d, raw_field, v) ==
    LET field_slug == _slugify(raw_field)
        target     == Get(FORM16_FIELD_MAP, field_slug, "None")
    IN  IF target = "gross_salary" THEN [d EXCEPT !.gross_salary = @ + v]
        ELSE IF target = "exempt_allowances" THEN [d EXCEPT !.exempt_allowances = @ + v]
        ELSE IF target = "standard_deduction" THEN [d EXCEPT !.standard_deduction = @ + v]
        ELSE IF target = "professional_tax" THEN [d EXCEPT !.professional_tax = @ + v]
        ELSE IF target = "other_income_declared"
             THEN [d EXCEPT !.other_income_declared = @ + v]
        ELSE IF target = "tds" THEN [d EXCEPT !.tds = @ + v]
        ELSE IF StartsWith(field_slug, <<"s","e","c","t","i","o","n","_","8","0">>) \/ StartsWith(field_slug, <<"8","0">>)
             THEN [d EXCEPT !.deductions = AddTo(@, RemoveSpaces(Upper(raw_field)), v)]
        ELSE [d EXCEPT !.extras = AddTo(@, raw_field, v)]

\* the if/elif chain over the income category (read_income_sheet 285-292,
\* read_tis 369-376)
IncomeAdd(b, category, v) ==
    IF category = "interest_income" THEN [b EXCEPT !.interest_income = @ + v]
    ELSE IF category = "dividend_income" THEN [b EXCEPT !.dividend_income = @ + v]
    ELSE IF category = "rental_income" THEN [b EXCEPT !.rental_income = @ + v]
    ELSE [b EXCEPT !.other_income = @ + v]

\* INCOME_CATEGORY_MAP.get(_slugify(label), "other_income")
IncomeCategory(label) == Get(INCOME_CATEGORY_MAP, _slugify(label), "other_income")

GainsAddDropsFno(g, category, v) ==
    IF category = "stcg_111a" THEN [g EXCEPT !.stcg_111a = @ + v]
    ELSE IF category = "ltcg_112a" THEN [g EXCEPT !.ltcg_112a = @ + v]
    ELSE IF category = "speculative_income" THEN [g EXCEPT !.speculative_income = @ + v]
    ELSE IF category = "non_speculative_income" THEN g
    ELSE [g EXCEPT !.other_gains = @ + v]

\* read_zerodha, lines 439-448
GainsAdd(g, category, v) ==
    IF category = "stcg_111a" THEN [g EXCEPT !.stcg_111a = @ + v]
    ELSE IF category = "ltcg_112a" THEN [g EXCEPT !.ltcg_112a = @ + v]
    ELSE IF category = "speculative_income" THEN [g EXCEPT !.speculative_income = @ + v]
    ELSE IF category = "non_speculative_income"
         THEN [g EXCEPT !.non_speculative_income = @ + v]
    ELSE [g EXCEPT !.other_gains = @ + v]

\* the lookup without its default
GainsCategoryNoFallback(label) == Get(ZERODHA_CATEGORY_MAP, _slugify(label), "None")

\* ZERODHA_CATEGORY_MAP.get(_slugify(label), "other_gains")
GainsCategory(label) == Get(ZERODHA_CATEGORY_MAP, _slugify(label), "other_gains")

\* description_col.capitalize(), the key of read_zerodha's optional field
Capitalized(col) ==
    CASE col = <<"d","e","s","c","r","i","p","t","i","o","n">> -> "Description"
      [] col = <<"s","e","g","m","e","n","t">>     -> "Segment"
      [] col = <<"n","o","t","e","s">>       -> "Notes"

\* read_income_sheet, lines 294-301
IncomeDetail(category_raw, category, v, hasDescription, description) ==
    IF hasDescription
    THEN [Category |-> category_raw, MappedCategory |-> category, Amount |-> v,
          Description |-> description]
    ELSE [Category |-> category_raw, MappedCategory |-> category, Amount |-> v]

\* read_zerodha, lines 450-457
GainsDetail(type_raw, category, v, col, description) ==
    IF col # NoColumn
    THEN [Type |-> type_raw, MappedCategory |-> category, Amount |-> v]
         @@ (Capitalized(col) :> description)
    ELSE [Type |-> type_raw, MappedCategory |-> category, Amount |-> v]

\* read_tis, lines 377-384 and 392-399
TisDetail(entry_type_raw, category_value, mapped, v) ==
    [Type |-> entry_type_raw, Category |-> category_value, MappedCategory |-> mapped,
     Amount |-> v]

TisIncomeTypes == {<<"i","n","c","o","m","e">>, <<"r","e","p","o","r","t","e","d","_","i","n","c","o","m","e">>}

TisDeductionTypes == {<<"d","e","d","u","c","t","i","o","n">>, <<"r","e","p","o","r","t","e","d","_","d","e","d","u","c","t","i","o","n">>}

TisTaxPaidTypes == {<<"t","a","x","p","a","i","d">>, <<"t","a","x","_","p","a","i","d">>, <<"a","d","v","a","n","c","e","_","t","a","x">>, <<"s","e","l","f","_","a","s","s","e","s","s","m","e","n","t","_","t","a","x">>}

TisAddDropsIgnored(acc, entry_type_raw, category_value, v) ==
    LET entry_type == _slugify(entry_type_raw)
    IN  IF entry_type \in TisIncomeTypes
        THEN LET mapped == IncomeCategory(category_value)
             IN  [acc EXCEPT !.breakdown =
                     [IncomeAdd(@, mapped, v) EXCEPT !.details =
                         Append(@, TisDetail(entry_type_raw, category_value, mapped, v))]]
        ELSE IF entry_type \in TisDeductionTypes
        THEN LET section_name ==
                     RemoveSpaces(Upper(IF category_value # <<>> THEN category_value
                                        ELSE <<"D","e","d","u","c","t","i","o","n">>))
             IN  [acc EXCEPT !.deductions = AddTo(@, section_name, v)]
        ELSE IF entry_type \in TisTaxPaidTypes
        THEN [acc EXCEPT !.tax_paid = @ + v]
        ELSE acc

\* a routing that counts the rows of an unknown entry type as other income
TisAddCountsIgnored(acc, entry_type_raw, category_value, v) ==
    LET entry_type == _slugify(entry_type_raw)
    IN  IF entry_type \in TisIncomeTypes
        THEN LET mapped == IncomeCategory(category_value)
             IN  [acc EXCEPT !.breakdown =
                     [IncomeAdd(@, mapped, v) EXCEPT !.details =
                         Append(@, TisDetail(entry_type_raw, category_value, mapped, v))]]
        ELSE IF entry_type \in TisDeductionTypes
        THEN LET section_name ==
                     RemoveSpaces(Upper(IF category_value # <<>> THEN category_value
                                        ELSE <<"D","e","d","u","c","t","i","o","n">>))
             IN  [acc EXCEPT !.deductions = AddTo(@, section_name, v)]
        ELSE IF entry_type \in TisTaxPaidTypes
        THEN [acc EXCEPT !.tax_paid = @ + v]
        ELSE [acc EXCEPT !.breakdown =
                 [IncomeAdd(@, "other_income", v) EXCEPT !.details =
                     Append(@, TisDetail(entry_type_raw, category_value, "ignored", v))]]

\* read_tis, lines 363-399, on the three accumulators
TisAdd(acc, entry_type_raw, category_value, v) ==
    LET entry_type == _slugify(entry_type_raw)
    IN  IF entry_type \in TisIncomeTypes
        THEN LET mapped == IncomeCategory(category_value)
             IN  [acc EXCEPT !.breakdown =
                     [IncomeAdd(@, mapped, v) EXCEPT !.details =
                         Append(@, TisDetail(entry_type_raw, category_value, mapped, v))]]
        ELSE IF entry_type \in TisDeductionTypes
        THEN LET section_name ==
                     RemoveSpaces(Upper(IF category_value # <<>> THEN category_value
                                        ELSE <<"D","e","d","u","c","t","i","o","n">>))
             IN  [acc EXCEPT !.deductions = AddTo(@, section_name, v)]
        ELSE IF entry_type \in TisTaxPaidTypes
        THEN [acc EXCEPT !.tax_paid = @ + v]
        ELSE [acc EXCEPT !.breakdown.details =
                 Append(@, TisDetail(entry_type_raw, category_value, "ignored", v))]

(***************************************************************************)
(* The files read: frames of three columns (label, amount, one more), as   *)
(* pd.read_csv / pd.read_excel return them: an empty cell of the file is a *)
(* missing cell (NaN) of the frame, never the empty string                 *)
(***************************************************************************)
MaxRows == 2

Blank == Text(<<" ">>)

Abc == Text(<<"a","b","c">>)

\* the amounts tried with one label of each reader: negative, numeric text,
\* missing, blank text, text that is no number
OddAmounts == {Num(-40), Text(<<" ","7","5"," ">>), NaN, Blank, Abc}

AllMissing == <<NaN, NaN, NaN>>

\* rows whose label cell is missing or blank text
UnlabelledRows(third) ==
    { <<NaN, Num(120), third>>, <<NaN, Abc, third>>, <<NaN, NaN, third>>,
      <<Blank, Num(120), third>>, <<Blank, Abc, third>> }

Form16Rows ==
    LET third == Text(<<"f","r","o","m"," ","e","m","p","l","o","y","e","r">>)
    IN  { <<Text(l), Num(120), third>> :
            l \in { <<"G","r","o","s","s"," ","S","a","l","a","r","y">>, <<"E","x","e","m","p","t"," ","A","l","l","o","w","a","n","c","e","s">>, <<"S","t","a","n","d","a","r","d"," ","D","e","d","u","c","t","i","o","n">>,
                    <<"P","r","o","f","e","s","s","i","o","n","a","l"," ","T","a","x">>, <<"O","t","h","e","r"," ","I","n","c","o","m","e"," ","D","e","c","l","a","r","e","d">>, <<"T","D","S">>,
                    <<"S","e","c","t","i","o","n"," ","8","0","C"," ","(","P","F",")">>, <<"8","0","D">>, <<"B","o","n","u","s">> } }
        \cup { <<Text(<<" ","G","r","o","s","s"," ","S","a","l","a","r","y">>), a, third>> : a \in OddAmounts }
        \cup { <<Text(<<"8","0","d">>), Num(-40), third>> }
        \cup UnlabelledRows(third) \cup {AllMissing}

IncomeSheetRows ==
    LET third == Text(<<"b","a","n","k">>)
    IN  { <<Text(l), Num(120), third>> :
            l \in { <<"I","n","t","e","r","e","s","t">>, <<"D","i","v","i","d","e","n","d">>, <<"R","e","n","t">>, <<"O","t","h","e","r","s">>, <<"L","o","t","t","e","r","y">> } }
        \cup { <<Text(<<"B","a","n","k"," ","I","n","t","e","r","e","s","t"," ">>), a, third>> : a \in OddAmounts }
        \cup { <<Text(<<"D","i","v","i","d","e","n","d">>), Num(300), NaN>> }
        \cup UnlabelledRows(third) \cup {AllMissing}

TisRows ==
    { <<Text(<<"I","n","c","o","m","e">>), Num(120), Text(c)>> :
        c \in { <<"I","n","t","e","r","e","s","t">>, <<"D","i","v","i","d","e","n","d">>, <<"H","o","u","s","e"," ","P","r","o","p","e","r","t","y">>, <<"L","o","t","t","e","r","y">> } }
    \cup { <<Text(<<"I","n","c","o","m","e">>), Num(120), NaN>>,
           <<Text(<<"D","e","d","u","c","t","i","o","n">>), Num(120), Text(<<"8","0","C">>)>>,
           <<Text(<<"R","e","p","o","r","t","e","d"," ","D","e","d","u","c","t","i","o","n">>), Num(300), Text(<<"S","e","c","t","i","o","n"," ","8","0","d">>)>>,
           <<Text(<<"D","e","d","u","c","t","i","o","n">>), Num(300), NaN>>,
           <<Text(<<"D","e","d","u","c","t","i","o","n">>), Num(300), Blank>>,
           <<Text(<<"T","a","x"," ","P","a","i","d">>), Num(120), NaN>>,
           <<Text(<<"A","d","v","a","n","c","e","-","T","a","x">>), Num(300), Text(<<"Q","1">>)>>,
           <<Text(<<"R","e","f","u","n","d">>), Num(120), Text(<<"I","n","t","e","r","e","s","t">>)>> }
    \cup { <<Text(<<" ","R","e","p","o","r","t","e","d"," ","I","n","c","o","m","e">>), a, Text(<<"I","n","t","e","r","e","s","t">>)>> : a \in OddAmounts }
    \cup UnlabelledRows(Text(<<"I","n","t","e","r","e","s","t">>)) \cup {AllMissing}

ZerodhaRows ==
    LET third == Text(<<"E","q","u","i","t","y"," ","D","e","l","i","v","e","r","y">>)
    IN  { <<Text(l), Num(120), third>> :
            l \in { <<"S","T","C","G","-","E","q","u","i","t","y">>, <<"L","T","C","G"," ","E","q","u","i","t","y">>, <<"I","n","t","r","a","d","a","y"," ","E","q","u","i","t","y">>, <<"F","N","O">>,
                    <<"B","o","n","d","s">> } }
        \cup { <<Text(<<"s","t","c","g"," ","e","q","u","i","t","y"," ">>), a, third>> : a \in OddAmounts }
        \cup { <<Text(<<"C","u","r","r","e","n","c","y"," ","F","&","O">>), Num(-40), NaN>> }
        \cup UnlabelledRows(third) \cup {AllMissing}

RowsOf(r) ==
    CASE r = "form16"       -> Form16Rows
      [] r = "income_sheet" -> IncomeSheetRows
      [] r = "tis"          -> TisRows
      [] r = "zerodha"      -> ZerodhaRows

\* a few rows, read under every header layout
FewRowsOf(r) ==
    CASE r = "form16" ->
             { <<Text(<<"G","r","o","s","s"," ","S","a","l","a","r","y">>), Num(120), Text(<<"f","r","o","m"," ","e","m","p","l","o","y","e","r">>)>>,
               <<Text(<<"8","0","D">>), Abc, NaN>> }
      [] r = "income_sheet" ->
             { <<Text(<<"I","n","t","e","r","e","s","t">>), Num(120), Text(<<"b","a","n","k">>)>>,
               <<Text(<<"L","o","t","t","e","r","y">>), Num(-40), NaN>> }
      [] r = "tis" ->
             { <<Text(<<"I","n","c","o","m","e">>), Num(120), Text(<<"I","n","t","e","r","e","s","t">>)>>,
               <<Text(<<"D","e","d","u","c","t","i","o","n">>), Num(300), Text(<<"8","0","C">>)>>,
               <<Text(<<"T","a","x"," ","P","a","i","d">>), Num(120), NaN>> }
      [] r = "zerodha" ->
             { <<Text(<<"S","T","C","G","-","E","q","u","i","t","y">>), Num(120), Text(<<"E","q","u","i","t","y"," ","D","e","l","i","v","e","r","y">>)>>,
               <<Text(<<"F","N","O">>), Num(-40), NaN>> }

\* the header layout every row set is read under
MainColumns(r) ==
    CASE r = "form16"       -> <<<<"F","i","e","l","d">>, <<"A","m","o","u","n","t">>, <<"R","e","m","a","r","k","s">>>>
      [] r = "income_sheet" -> <<<<"C","a","t","e","g","o","r","y">>, <<"A","m","o","u","n","t">>, <<"d","e","s","c","r","i","p","t","i","o","n">>>>
      [] r = "tis"          -> <<<<"T","y","p","e">>, <<"A","m","o","u","n","t">>, <<"c","a","t","e","g","o","r","y">>>>
      [] r = "zerodha"      -> <<<<"T","y","p","e">>, <<"A","m","o","u","n","t">>, <<"s","e","g","m","e","n","t">>>>

\* other layouts: synonyms, an optional column spelled with a capital, a
\* required column that no synonym matches
OtherColumns(r) ==
    CASE r = "form16" ->
             { <<<<"C","o","m","p","o","n","e","n","t">>, <<"A","M","T">>, <<"R","e","m","a","r","k","s">>>>,
               <<<<"P","a","r","t","i","c","u","l","a","r","s">>, <<"A","m","o","u","n","t">>, <<"R","e","m","a","r","k","s">>>>,
               <<<<"F","i","e","l","d">>, <<"R","u","p","e","e","s">>, <<"R","e","m","a","r","k","s">>>> }
      [] r = "income_sheet" ->
             { <<<<"H","e","a","d">>, <<"R","e","p","o","r","t","e","d"," ","A","m","o","u","n","t">>, <<"D","e","s","c","r","i","p","t","i","o","n">>>>,
               <<<<"t","y","p","e">>, <<"v","a","l","u","e">>, <<"s","o","u","r","c","e">>>>,
               <<<<"P","a","r","t","i","c","u","l","a","r","s">>, <<"A","m","o","u","n","t">>, <<"d","e","s","c","r","i","p","t","i","o","n">>>>,
               <<<<"C","a","t","e","g","o","r","y">>, <<"R","u","p","e","e","s">>, <<"d","e","s","c","r","i","p","t","i","o","n">>>> }
      [] r = "tis" ->
             { <<<<"E","n","t","r","y"," ","T","y","p","e">>, <<"V","a","l","u","e">>, <<"C","a","t","e","g","o","r","y">>>>,
               <<<<"t","y","p","e">>, <<"a","m","o","u","n","t">>, <<"s","e","c","t","i","o","n">>>>,
               <<<<"K","i","n","d">>, <<"A","m","o","u","n","t">>, <<"c","a","t","e","g","o","r","y">>>>,
               <<<<"T","y","p","e">>, <<"R","u","p","e","e","s">>, <<"c","a","t","e","g","o","r","y">>>> }
      [] r = "zerodha" ->
             { <<<<"C","a","t","e","g","o","r","y">>, <<"P","n","L">>, <<"S","e","g","m","e","n","t">>>>,
               <<<<"t","y","p","e">>, <<"n","e","t">>, <<"n","o","t","e","s">>>>,
               <<<<"T","r","a","d","e">>, <<"A","m","o","u","n","t">>, <<"s","e","g","m","e","n","t">>>>,
               <<<<"T","y","p","e">>, <<"T","o","t","a","l">>, <<"s","e","g","m","e","n","t">>>> }

SeqsUpTo(S, n) == UNION {[1..k -> S] : k \in 0..n}

PathOf(r, suffix) ==
    (CASE r = "form16"       -> <<"f","o","r","m","1","6">>
       [] r = "income_sheet" -> <<"a","i","s">>
       [] r = "tis"          -> <<"t","i","s">>
       [] r = "zerodha"      -> <<"z","e","r","o","d","h","a","_","p","n","l">>) \o suffix

\* what a reader is called on: the path and the frame pandas returns for it
InputsOf(r) ==
    { [path |-> PathOf(r, <<".","c","s","v">>), frame |-> [columns |-> MainColumns(r), rows |-> rows]] :
        rows \in SeqsUpTo(RowsOf(r), MaxRows) }
    \cup { [path |-> PathOf(r, <<".","X","L","S","X">>), frame |-> [columns |-> c, rows |-> rows]] :
             c \in OtherColumns(r), rows \in SeqsUpTo(FewRowsOf(r), MaxRows) }
    \cup { [path |-> PathOf(r, <<".","t","x","t">>),
            frame |-> [columns |-> MainColumns(r), rows |-> <<>>]] }

(***************************************************************************)
(* The readers as processes: load, resolve the columns, one row at a time, *)
(* return                                                                  *)
(***************************************************************************)
Init ==
    /\ pc = "load"
    /\ reader \in Readers
    /\ \E in \in InputsOf(reader) : path = in.path /\ raw = in.frame
    /\ df = NoFrame
    /\ label_col = NoColumn /\ amount_col = NoColumn /\ extra_col = NoColumn
    /\ i = 0
    /\ data = NewForm16Data
    /\ breakdown = NewIncomeBreakdown
    /\ gains = NewCapitalGainsBreakdown
    /\ deductions = <<>>
    /\ tax_paid = 0
    /\ ret = NoValue
    /\ err = NoError
    /\ PickIdle /\ SlabIdle /\ TaxIdle /\ MainIdle

accVars == <<data, breakdown, gains, deductions, tax_paid>>

otherVars == <<pickVars, slabVars, taxVars, mainVars>>

\* df = _load_table(path)
LoadTable ==
    /\ pc = "load"
    /\ LET r == _load_table(path, raw)
       IN  /\ df' = r.df
           /\ err' = r.err
           /\ pc' = IF r.ok THEN "pick" ELSE "raised"
    /\ UNCHANGED <<reader, path, raw, label_col, amount_col, extra_col, i, accVars, ret,
                   otherVars>>

\* the two _pick_column calls, the search for the optional column, and the
\* construction of the empty aggregate
PickColumns ==
    /\ pc = "pick"
    /\ LET l == _pick_column(df.columns, <<LabelAlternatives(reader)>>)
           a == _pick_column(df.columns, <<AmountAlternatives(reader)>>)
       IN  IF ~l.found
           THEN /\ err' = Raise("None of the expected columns were found", <<>>, NaN,
                                <<>>, l.tried)
                /\ pc' = "raised"
                /\ UNCHANGED <<label_col, amount_col, extra_col>>
           ELSE IF ~a.found
           THEN /\ err' = Raise("None of the expected columns were found", <<>>, NaN,
                                <<>>, a.tried)
                /\ pc' = "raised"
                /\ label_col' = l.column
                /\ UNCHANGED <<amount_col, extra_col>>
           ELSE /\ label_col' = l.column
                /\ amount_col' = a.column
                /\ extra_col' = FirstPresent(df.columns, OptionalNames(reader))
                /\ pc' = "rows"
                /\ UNCHANGED err
    /\ data' = NewForm16Data
    /\ breakdown' = NewIncomeBreakdown
    /\ gains' = NewCapitalGainsBreakdown
    /\ deductions' = <<>>
    /\ tax_paid' = 0
    /\ UNCHANGED <<reader, path, raw, df, i, ret, otherVars>>

\* the row df.iterrows() yields next, and its label and amount cells
NextRow == df.rows[i + 1]

NextLabel == Cell(df, NextRow, label_col)

NextAmount == Cell(df, NextRow, amount_col)

NextExtra == IF extra_col = NoColumn THEN NaN ELSE Cell(df, NextRow, extra_col)

\* raise InputFormatError(f"Invalid amount {amount!r} for ... {label!r} in {path!s}")
InvalidAmount == Raise("Invalid amount", Strip(PyStr(NextLabel)), NextAmount, path, <<>>)

\* one pass of a reader's loop body over the next row; `add` holds when the
\* accumulators take the row
RowStep(r, add) ==
    /\ pc = "rows"
    /\ reader = r
    /\ i < Len(df.rows)
    /\ i' = i + 1
    /\ LET st == RowStatus(NextLabel, NextAmount)
       IN  IF st = "accept" THEN pc' = "rows" /\ UNCHANGED err /\ add
           ELSE IF st = "raise"
           THEN pc' = "raised" /\ err' = InvalidAmount /\ UNCHANGED accVars
           ELSE pc' = "rows" /\ UNCHANGED <<err, accVars>>
    /\ UNCHANGED <<reader, path, raw, df, label_col, amount_col, extra_col, ret, otherVars>>

\* read_form16, lines 198-231
Form16Row ==
    RowStep("form16",
            /\ data' = Form16Add(data, Strip(PyStr(NextLabel)), PyFloat(NextAmount))
            /\ UNCHANGED <<breakdown, gains, deductions, tax_paid>>)

\* read_income_sheet, lines 268-301
IncomeSheetRow ==
    RowStep("income_sheet",
            LET category_raw == Strip(PyStr(NextLabel))
                category     == IncomeCategory(category_raw)
                v            == PyFloat(NextAmount)
            IN  /\ breakdown' =
                       [IncomeAdd(breakdown, category, v) EXCEPT !.details =
                           Append(@, IncomeDetail(category_raw, category, v,
                                                  extra_col # NoColumn, NextExtra))]
                /\ UNCHANGED <<data, gains, deductions, tax_paid>>)

\* read_tis, lines 348-399
TisRow ==
    RowStep("tis",
            LET category_value ==
                    IF extra_col # NoColumn THEN Strip(PyStr(NextExtra)) ELSE <<>>
                acc == TisAdd([breakdown |-> breakdown, deductions |-> deductions,
                               tax_paid |-> tax_paid],
                              Strip(PyStr(NextLabel)), category_value, PyFloat(NextAmount))
            IN  /\ breakdown' = acc.breakdown
                /\ deductions' = acc.deductions
                /\ tax_paid' = acc.tax_paid
                /\ UNCHANGED <<data, gains>>)

\* read_zerodha, lines 422-457
ZerodhaRow ==
    RowStep("zerodha",
            LET type_raw == Strip(PyStr(NextLabel))
                category == GainsCategory(type_raw)
                v        == PyFloat(NextAmount)
            IN  /\ gains' =
                       [GainsAdd(gains, category, v) EXCEPT !.details =
                           Append(@, GainsDetail(type_raw, category, v, extra_col, NextExtra))]
                /\ UNCHANGED <<data, breakdown, deductions, tax_paid>>)

\* the value the reader returns
Returned(r) ==
    CASE r = "form16"       -> data
      [] r = "income_sheet" -> breakdown
      [] r = "tis"          ->
             [income_breakdown |-> breakdown, deductions |-> deductions,
              tax_paid |-> tax_paid]
      [] r = "zerodha"      -> gains

\* the return statement after the loop
Return ==
    /\ pc = "rows"
    /\ i = Len(df.rows)
    /\ ret' = [returned |-> TRUE, value |-> Returned(reader)]
    /\ pc' = "returned"
    /\ UNCHANGED <<reader, path, raw, df, label_col, amount_col, extra_col, i, accVars,
                   err, otherVars>>

Next ==
    \/ LoadTable
    \/ PickColumns
    \/ Form16Row
    \/ IncomeSheetRow
    \/ TisRow
    \/ ZerodhaRow
    \/ Return

Spec == Init /\ [][Next]_vars

(***************************************************************************)
(* Properties of the readers                                               *)
(***************************************************************************)
RECURSIVE SumSeq(_)
SumSeq(q) == IF q = <<>> THEN 0 ELSE Head(q) + SumSeq(Tail(q))

Map(q, F(_)) == [k \in DOMAIN q |-> F(q[k])]

LabelOf(row) == Cell(df, row, label_col)

AmountOf(row) == Cell(df, row, amount_col)

\* the label as the readers keep it: str(cell).strip()
LabelText(row) == Strip(PyStr(LabelOf(row)))

\* a row the loop neither skips nor fails on
NotSkipped(row) == RowStatus(LabelOf(row), AmountOf(row)) = "accept"

\* a blank cell: missing, or text that is empty or only whitespace
BlankCell(c) == c.kind = "nan" \/ (c.kind = "str" /\ Strip(c.text) = <<>>)

\* an accepted row in the words of the claims: non-blank label, non-blank
\* amount, amount numerically parseable
Accepted(row) ==
    ~BlankCell(LabelOf(row)) /\ ~BlankCell(AmountOf(row)) /\ CanFloat(AmountOf(row))

\* the columns are resolved and the loop has started, ended or failed
InLoop == pc \in {"rows", "returned"} \/ (pc = "raised" /\ err.what = "Invalid amount")

\* the rows df.iterrows() has yielded so far
Seen == SubSeq(df.rows, 1, i)

GainsBuckets ==
    {"stcg_111a", "ltcg_112a", "speculative_income", "non_speculative_income",
     "other_gains"}

DetailsSoFar == IF reader = "zerodha" THEN gains.details ELSE breakdown.details

Recorded(row) ==
    /\ NotSkipped(row)
    /\ reader = "tis" =>
           SlugOf(LabelText(row)) \notin TisDeductionTypes \cup TisTaxPaidTypes

\* the label a detail record carries
DetailLabel(d) == IF reader = "income_sheet" THEN d.Category ELSE d.Type

C8_BlankRowsChangeNothing ==
    [][ ( /\ pc = "rows"
          /\ i < Len(df.rows)
          /\ i' = i + 1
          /\ BlankCell(NextLabel) \/ BlankCell(NextAmount) )
        => ( /\ UNCHANGED accVars
             /\ err' = err
             /\ pc' = "rows" ) ]_vars

\* the first row (in file order) with a non-blank label and a present,
\* non-numeric amount; 0 when there is none
FirstBadRow ==
    LET bad == {k \in DOMAIN df.rows :
                   /\ ~BlankCell(LabelOf(df.rows[k]))
                   /\ ~BlankCell(AmountOf(df.rows[k]))
                   /\ ~CanFloat(AmountOf(df.rows[k]))}
    IN  IF bad = {} THEN 0 ELSE FirstIndex(bad)

\* C9: in every reader the first row with a non-blank label and a present but
\* non-numeric amount makes the parse fail with an InputFormatError naming
\* that row's label, the raw amount and the path; nothing is returned and no
\* later row is processed.
C9_FailFastOnFirstBadRow ==
    ((pc = "returned" \/ (pc = "raised" /\ err.what = "Invalid amount")) /\ FirstBadRow # 0) =>
        /\ pc = "raised"
        /\ err.raised
        /\ i = FirstBadRow
        /\ err.label = Strip(LabelOf(df.rows[FirstBadRow]).text)
        /\ err.amount = AmountOf(df.rows[FirstBadRow])
        /\ err.path = path
        /\ ~ret.returned

\* the same with the rows taken as the readers take them: label text
\* (str(cell).strip(), "nan" for a missing cell) non-empty, amount not missing
FirstFailingRow ==
    LET bad == {k \in DOMAIN df.rows :
                   RowStatus(LabelOf(df.rows[k]), AmountOf(df.rows[k])) = "raise"}
    IN  IF bad = {} THEN 0 ELSE FirstIndex(bad)

FailFastAsParsed ==
    (InLoop /\ pc # "rows" /\ FirstFailingRow # 0) =>
        /\ pc = "raised"
        /\ i = FirstFailingRow
        /\ err.label = LabelText(df.rows[FirstFailingRow])
        /\ err.amount = AmountOf(df.rows[FirstFailingRow])
        /\ err.path = path
        /\ ~ret.returned

(***************************************************************************)
(* Properties of the column resolution in the readers                      *)
(***************************************************************************)
\* no header of the frame has the slug of any of the names
NoHeaderMatches(names) ==
    \A c \in DOMAIN df.columns : \A k \in DOMAIN names : ~SameSlug(df.columns[c], names[k])

\* the table is loaded and the columns have been looked for
ColumnsLookedFor ==
    pc \in {"rows", "returned"} \/ (pc = "raised" /\ err.what \in {"Invalid amount",
                                       "None of the expected columns were found"})

NothingAccumulated ==
    /\ data = NewForm16Data
    /\ breakdown = NewIncomeBreakdown
    /\ gains = NewCapitalGainsBreakdown
    /\ deductions = <<>>
    /\ tax_paid = 0

\* C11: when no header matches any synonym of a required field (label or
\* amount), the reader fails with the InputFormatError that names every
\* alternative tried for that field, before any row is read: nothing is
\* accumulated, no detail record exists, nothing is returned; a reader is in
\* its loop only with both required columns resolved.
C11_MissingColumnAbortsBeforeRows ==
    ColumnsLookedFor =>
        LET noLabel  == NoHeaderMatches(LabelAlternatives(reader))
            noAmount == NoHeaderMatches(AmountAlternatives(reader))
        IN  /\ (noLabel \/ noAmount) =>
                   /\ pc = "raised"
                   /\ err.raised
                   /\ err.what = "None of the expected columns were found"
                   /\ err.tried = (IF noLabel THEN <<LabelAlternatives(reader)>>
                                   ELSE <<AmountAlternatives(reader)>>)
                   /\ i = 0
                   /\ NothingAccumulated
                   /\ ~ret.returned
            /\ ~(noLabel \/ noAmount) =>
                   /\ ~(pc = "raised" /\ err.what = "None of the expected columns were found")
                   /\ label_col \in Range(df.columns)
                   /\ amount_col \in Range(df.columns)

\* read_zerodha has resolved its label column, found no amount column and
\* failed, on a table that has rows
C11_Witness ==
    /\ reader = "zerodha"
    /\ pc = "raised"
    /\ err.what = "None of the expected columns were found"
    /\ err.tried = <<AmountAlternatives("zerodha")>>
    /\ label_col = <<"T","y","p","e">>
    /\ Len(df.rows) = 2
    /\ i = 0

(***************************************************************************)
(* Properties of the category mappings                                     *)
(***************************************************************************)
IncomeCategories == {"interest_income", "dividend_income", "rental_income", "other_income"}

GainsCategories == GainsBuckets

\* the category the static table gives the label's slug, the fallback when
\* the slug is no key of the table
Mapped(table, label, fallback) ==
    IF SlugOf(label) \in DOMAIN table THEN table[SlugOf(label)] ELSE fallback

\* C12: the category mapping is total.  Every detail record of
\* read_income_sheet (and of an income-typed row of read_tis) carries one of
\* the four income categories, every detail record of read_zerodha one of the
\* five capital-gains categories; it is the static table's value for the
\* label's slug, and the fallback (other_income / other_gains) for a label
\* the table does not have; the buckets hold what the details hold, and the
\* only error of the loop is that of an amount that is no number.
C12_CategoryMappingTotal ==
    InLoop =>
        /\ reader = "income_sheet" =>
               /\ \A k \in DOMAIN breakdown.details :
                      LET d == breakdown.details[k]
                      IN  /\ d.MappedCategory \in IncomeCategories
                          /\ d.MappedCategory
                                 = Mapped(INCOME_CATEGORY_MAP, d.Category, "other_income")
               /\ \A c \in IncomeCategories :
                      breakdown[c] = SumSeq(Map(SelectSeq(breakdown.details,
                                                          LAMBDA d : d.MappedCategory = c),
                                                LAMBDA d : d.Amount))
        /\ reader = "tis" =>
               \A k \in DOMAIN breakdown.details :
                   LET d == breakdown.details[k]
                   IN  IF SlugOf(d.Type) \in TisIncomeTypes
                       THEN /\ d.MappedCategory \in IncomeCategories
                            /\ d.MappedCategory
                                   = Mapped(INCOME_CATEGORY_MAP, d.Category, "other_income")
                       ELSE d.MappedCategory = "ignored"
        /\ reader = "zerodha" =>
               /\ \A k \in DOMAIN gains.details :
                      LET d == gains.details[k]
                      IN  /\ d.MappedCategory \in GainsCategories
                          /\ d.MappedCategory
                                 = Mapped(ZERODHA_CATEGORY_MAP, d.Type, "other_gains")
               /\ \A c \in GainsCategories :
                      gains[c] = SumSeq(Map(SelectSeq(gains.details,
                                                      LAMBDA d : d.MappedCategory = c),
                                            LAMBDA d : d.Amount))
        /\ pc = "raised" => ~CanFloat(err.amount)

\* read_income_sheet has returned a row of a label the table does not have
\* ("Lottery") under the fallback, after a row of a label it has
C12_Witness ==
    /\ reader = "income_sheet" /\ pc = "returned"
    /\ Len(ret.value.details) = 2
    /\ ret.value.details[1].MappedCategory = "interest_income"
    /\ ret.value.details[2].Category = <<"L","o","t","t","e","r","y">>
    /\ ret.value.details[2].MappedCategory = "other_income"
    /\ ret.value.other_income = 120

(***************************************************************************)
(* main, lines 678-717: the four readers, the metadata, compute_tax,       *)
(* export_summary, return 0.  The readers run as the processes above.      *)
(***************************************************************************)
\* the readers in the order main calls them
ReaderOrder == <<"form16", "income_sheet", "tis", "zerodha">>

\* the name of the function that reads for reader r
FunctionName(r) ==
    CASE r = "form16"       -> "read_form16"
      [] r = "income_sheet" -> "read_income_sheet"
      [] r = "tis"          -> "read_tis"
      [] r = "zerodha"      -> "read_zerodha"

\* one row of a file of reader r
SomeRowOf(r) == CHOOSE row \in FewRowsOf(r) : TRUE

\* the files main is run on: one row or none under the usual headers, one
\* row whose amount is no number, a layout with a required column missing,
\* a file of an unsupported extension
MainInputsOf(r) ==
    { [path |-> PathOf(r, <<".","c","s","v">>), frame |-> [columns |-> MainColumns(r), rows |-> rows]] :
        rows \in SeqsUpTo(FewRowsOf(r), 1) }
    \cup { [path |-> PathOf(r, <<".","c","s","v">>),
            frame |-> [columns |-> MainColumns(r),
                       rows |-> << [SomeRowOf(r) EXCEPT ![2] = Abc] >>]] }
    \cup { [path |-> PathOf(r, <<".","x","l","s","x">>),
            frame |-> [columns |-> c, rows |-> << SomeRowOf(r) >>]] : c \in OtherColumns(r) }
    \cup { [path |-> PathOf(r, <<".","t","x","t">>),
            frame |-> [columns |-> MainColumns(r), rows |-> <<>>]] }

\* where main goes when a call raises: main has no try, the exception leaves it
OnExceptionContinue(n) == IF n < Len(ReaderOrder) THEN "main_next" ELSE "main_metadata"

OnException(n) == "main_exit"

\* IncomeBreakdown(...) of lines 693-698
CombinedIncome(a, t) ==
    [NewIncomeBreakdown EXCEPT
        !.interest_income = a.interest_income + t.interest_income,
        !.dividend_income = a.dividend_income + t.dividend_income,
        !.rental_income   = a.rental_income + t.rental_income,
        !.other_income    = a.other_income + t.other_income]

InitMain ==
    /\ pc = "main_next"
    /\ ParseIdle /\ PickIdle /\ SlabIdle /\ TaxIdle /\ MainIdle

\* lines 682-685: the call of the next reader, on a file of the command line
MainCallReader ==
    /\ pc = "main_next"
    /\ Len(completed) < Len(ReaderOrder)
    /\ LET r == ReaderOrder[Len(completed) + 1]
       IN  /\ reader' = r
           /\ called' = Append(called, FunctionName(r))
           /\ \E in \in MainInputsOf(r) : path' = in.path /\ raw' = in.frame
    /\ df' = NoFrame
    /\ label_col' = NoColumn /\ amount_col' = NoColumn /\ extra_col' = NoColumn
    /\ i' = 0
    /\ data' = NewForm16Data
    /\ breakdown' = NewIncomeBreakdown
    /\ gains' = NewCapitalGainsBreakdown
    /\ deductions' = <<>>
    /\ tax_paid' = 0
    /\ ret' = NoValue
    /\ err' = NoError
    /\ pc' = "load"
    /\ UNCHANGED <<completed, ais_income, tis_income, workbook, status, pickVars,
                   slabVars, taxVars>>

\* lines 682-685: the reader has returned and main binds its value
MainReaderReturned ==
    /\ pc = "returned"
    /\ status = "running"
    /\ called # <<>>
    /\ completed' = Append(completed, FunctionName(reader))
    /\ form16' = IF reader = "form16" THEN ret.value ELSE form16
    /\ ais_income' = IF reader = "income_sheet" THEN ret.value ELSE ais_income
    /\ tis_income' = IF reader = "tis" THEN ret.value.income_breakdown ELSE tis_income
    /\ tis_deductions' = IF reader = "tis" THEN ret.value.deductions ELSE tis_deductions
    /\ tis_tax_paid' = IF reader = "tis" THEN ret.value.tax_paid ELSE tis_tax_paid
    /\ zerodha' = IF reader = "zerodha" THEN ret.value ELSE zerodha
    /\ pc' = IF Len(completed') < Len(ReaderOrder) THEN "main_next" ELSE "main_metadata"
    /\ UNCHANGED <<parseVars, pickVars, slabVars, other_income, tax, called, workbook,
                   status>>

\* the reader has raised InputFormatError: nothing in main catches it
MainReaderRaised ==
    /\ pc = "raised"
    /\ status = "running"
    /\ called # <<>>
    /\ pc' = OnException(Len(called))
    /\ status' = IF pc' = "main_exit" THEN "raised" ELSE status
    /\ UNCHANGED <<parseVars, pickVars, slabVars, taxVars, called, completed,
                   ais_income, tis_income, workbook>>

\* lines 687-689: json.loads(args.metadata) raises on text that is no JSON
MainMetadata ==
    /\ pc = "main_metadata"
    /\ \E metadata \in {"absent", "json", "not json"} :
           IF metadata = "not json"
           THEN pc' = "main_exit" /\ status' = "raised"
           ELSE pc' = "main_compute_tax" /\ UNCHANGED status
    /\ UNCHANGED <<parseVars, pickVars, slabVars, taxVars, called, completed,
                   ais_income, tis_income, workbook>>

\* lines 691-702
MainComputeTax ==
    /\ pc = "main_compute_tax"
    /\ called' = Append(called, "compute_tax")
    /\ other_income' = CombinedIncome(ais_income, tis_income)
    /\ tax' = compute_tax(form16, other_income', zerodha, tis_deductions, tis_tax_paid)
    /\ completed' = Append(completed, "compute_tax")
    /\ pc' = "main_export"
    /\ UNCHANGED <<parseVars, pickVars, slabVars, form16, zerodha, tis_deductions,
                   tis_tax_paid, ais_income, tis_income, workbook, status>>

\* lines 704-714: export_summary writes the workbook
MainExport ==
    /\ pc = "main_export"
    /\ called' = Append(called, "export_summary")
    /\ workbook' = "written"
    /\ completed' = Append(completed, "export_summary")
    /\ pc' = "main_return"
    /\ UNCHANGED <<parseVars, pickVars, slabVars, taxVars, ais_income, tis_income,
                   status>>

\* lines 716-717
MainReturn ==
    /\ pc = "main_return"
    /\ status' = "0"
    /\ pc' = "main_exit"
    /\ UNCHANGED <<parseVars, pickVars, slabVars, taxVars, called, completed,
                   ais_income, tis_income, workbook>>

NextMain ==
    \/ MainCallReader
    \/ LoadTable
    \/ PickColumns
    \/ Form16Row
    \/ IncomeSheetRow
    \/ TisRow
    \/ ZerodhaRow
    \/ Return
    \/ MainReaderReturned
    \/ MainReaderRaised
    \/ MainMetadata
    \/ MainComputeTax
    \/ MainExport
    \/ MainReturn

SpecMain == InitMain /\ [][NextMain]_vars

(***************************************************************************)
(* Properties of main                                                      *)
(***************************************************************************)
CallOrder ==
    <<"read_form16", "read_income_sheet", "read_tis", "read_zerodha", "compute_tax",
      "export_summary">>

IsPrefix(p, q) == Len(p) <= Len(q) /\ SubSeq(q, 1, Len(p)) = p

ReaderNames == {"read_form16", "read_income_sheet", "read_tis", "read_zerodha"}

\* a reader called by main has raised
ReaderFailed ==
    /\ called # <<>>
    /\ called[Len(called)] \in ReaderNames
    /\ Len(completed) < Len(called)
    /\ err.raised

\* C13: main invokes export_summary (and the workbook exists) only after
\* read_form16, read_income_sheet, read_tis, read_zerodha and compute_tax
\* have returned, called in that order and each once; when a reader raises
\* InputFormatError the run stops there: no reader is called again, no later
\* reader runs, export_summary is never invoked, no workbook exists and main
\* does not return 0.
C13_ExportOnlyAfterAllReaders ==
    /\ IsPrefix(called, CallOrder)
    /\ IsPrefix(completed, called)
    /\ Len(called) <= Len(completed) + 1
    /\ ("export_summary" \in Range(called) \/ workbook = "written") =>
           /\ SubSeq(completed, 1, 5) = SubSeq(CallOrder, 1, 5)
           /\ ~err.raised
    /\ status = "0" => workbook = "written" /\ completed = CallOrder
    /\ ReaderFailed =>
           /\ pc \in {"raised", "main_exit"}
           /\ called[Len(called)] = FunctionName(reader)
           /\ "export_summary" \notin Range(called)
           /\ workbook = "absent"
           /\ status # "0"
    /\ (status = "raised" /\ err.raised) => ReaderFailed /\ pc = "main_exit"

\* read_tis has raised after read_form16 and read_income_sheet returned: the
\* run is over with nothing written
C13_Witness ==
    /\ pc = "main_exit"
    /\ status = "raised"
    /\ err.raised
    /\ called = <<"read_form16", "read_income_sheet", "read_tis">>
    /\ completed = <<"read_form16", "read_income_sheet">>
    /\ workbook = "absent"

(***************************************************************************)
(* Properties of read_form16                                               *)
(***************************************************************************)
NamedTotals ==
    {"gross_salary", "exempt_allowances", "standard_deduction", "professional_tax",
     "other_income_declared", "tds"}

\* the destination of a row of read_form16, by its label
IsNamed(row) == SlugOf(LabelText(row)) \in DOMAIN FORM16_FIELD_MAP

IsDeduction(row) ==
    /\ ~IsNamed(row)
    /\ \/ StartsWith(SlugOf(LabelText(row)), <<"8","0">>)
       \/ StartsWith(SlugOf(LabelText(row)), <<"s","e","c","t","i","o","n","_","8","0">>)

IsExtra(row) == ~IsNamed(row) /\ ~IsDeduction(row)

\* the deductions key: the label uppercased, its spaces removed
DeductionKey(row) == RemoveSpaces(Upper(LabelText(row)))

AmountsOf(rows) == SumSeq(Map(rows, LAMBDA r : PyFloat(AmountOf(r))))

TisTakesNextRow ==
    /\ reader = "tis" /\ pc = "rows"
    /\ i < Len(df.rows)
    /\ i' = i + 1
    /\ RowStatus(NextLabel, NextAmount) = "accept"

\* the slugged entry type and the category text of the next row
NextEntryType == SlugOf(Strip(PyStr(NextLabel)))

NextCategoryValue == IF extra_col = NoColumn THEN <<>> ELSE Strip(PyStr(NextExtra))

BucketsUnchanged == \A c \in IncomeCategories : breakdown'[c] = breakdown[c]

DetailAdded(mapped) ==
    /\ Len(breakdown'.details) = Len(breakdown.details) + 1
    /\ SubSeq(breakdown'.details, 1, Len(breakdown.details)) = breakdown.details
    /\ breakdown'.details[Len(breakdown'.details)].MappedCategory = mapped
    /\ breakdown'.details[Len(breakdown'.details)].Amount = PyFloat(NextAmount)

\* C15: read_tis routes every accepted row by its slugged entry type to one
\* destination.  income / reported_income: the one income bucket the category
\* mapping gives; deduction / reported_deduction: the deductions mapping
\* only; taxpaid / tax_paid / advance_tax / self_assessment_tax: the tax-paid
\* scalar only; any other type: a detail record "ignored", and no income
\* bucket, no deduction and no tax paid changes.
C15_TisRouting ==
    [][ TisTakesNextRow =>
          LET v == PyFloat(NextAmount)
          IN  IF NextEntryType \in TisIncomeTypes
              THEN LET mapped == Mapped(INCOME_CATEGORY_MAP, NextCategoryValue,
                                        "other_income")
                   IN  /\ \A c \in IncomeCategories :
                              breakdown'[c] = breakdown[c] + (IF c = mapped THEN v ELSE 0)
                       /\ DetailAdded(mapped)
                       /\ deductions' = deductions
                       /\ tax_paid' = tax_paid
              ELSE IF NextEntryType \in TisDeductionTypes
              THEN /\ breakdown' = breakdown
                   /\ tax_paid' = tax_paid
                   /\ SumValues(deductions') = SumValues(deductions) + v
                   /\ \E key \in DOMAIN deductions' :
                          /\ DOMAIN deductions' = DOMAIN deductions \cup {key}
                          /\ \A k \in DOMAIN deductions : k # key => deductions'[k] = deductions[k]
              ELSE IF NextEntryType \in TisTaxPaidTypes
              THEN /\ breakdown' = breakdown
                   /\ deductions' = deductions
                   /\ tax_paid' = tax_paid + v
              ELSE /\ BucketsUnchanged
                   /\ DetailAdded("ignored")
                   /\ deductions' = deductions
                   /\ tax_paid' = tax_paid ]_vars

\* read_tis has returned a row of an unknown entry type ("Refund") and a
\* tax-paid row: one record "ignored", no income, no deduction, the tax paid
C15_Witness ==
    /\ reader = "tis" /\ pc = "returned"
    /\ Len(df.rows) = 2
    /\ Len(ret.value.income_breakdown.details) = 1
    /\ ret.value.income_breakdown.details[1].Type = <<"R","e","f","u","n","d">>
    /\ ret.value.income_breakdown.details[1].MappedCategory = "ignored"
    /\ IncomeTotal(ret.value.income_breakdown) = 0
    /\ ret.value.deductions = <<>>
    /\ ret.value.tax_paid = 120

(***************************************************************************)
(* Properties of compute_tax: signs                                        *)
(***************************************************************************)
\* C16: whatever compute_tax is given (losses in the capital-gains buckets,
\* a negative salary income, deductions above the income), total_income >= 0,
\* 0 <= rebate_87a <= 12,500, rebate_87a <= the slab tax before the rebate,
\* tax_before_cess >= 0, health_education_cess >= 0, tax_payable >= 0, and
\* the special-rate taxes are never negative.
C16_NonNegativeOutputs ==
    pc = "tax_done" =>
        /\ tax.total_income >= 0
        /\ tax.rebate_87a >= 0
        /\ tax.rebate_87a <= 100 * 12500
        /\ tax.rebate_87a <= tax.slab_tax
        /\ tax.tax_before_cess >= 0
        /\ tax.health_education_cess >= 0
        /\ tax.tax_payable >= 0
        /\ tax.stcg_tax >= 0
        /\ tax.ltcg_tax >= 0
        /\ (zerodha.stcg_111a <= 0 => tax.stcg_tax = 0)
        /\ (zerodha.ltcg_112a <= 0 => tax.ltcg_tax = 0)

\* compute_tax has returned on a negative salary income, losses in both
\* special-rate buckets and deductions above the income
C16_Witness ==
    /\ pc = "tax_done"
    /\ SalaryIncome(form16) < 0
    /\ zerodha.stcg_111a < 0
    /\ zerodha.ltcg_112a < 0
    /\ tax.chapter_vi_total > tax.gross_total_income
    /\ tax.gross_total_income < 0
    /\ tax.total_income = 0
    /\ tax.tax_payable = 0

(***************************************************************************)
(* Properties of the optional columns                                      *)
(***************************************************************************)
\* no header is exactly one of read_tis's optional names
NoExactOptional == Range(df.columns) \cap Range(OptionalNames("tis")) = {}

\* the headers that are an optional name in another spelling
OtherSpellings ==
    {c \in Range(df.columns) :
        \E k \in DOMAIN OptionalNames("tis") : SameSlug(c, OptionalNames("tis")[k])}

\* the rows read_tis has taken so far, by entry type
TisTaken(types) ==
    SelectSeq(Seen, LAMBDA r : NotSkipped(r) /\ SlugOf(LabelText(r)) \in types)

\* what read_tis would hold after the rows with column col as its category
\* column
RECURSIVE TisWithCategory(_, _)
TisWithCategory(rows, col) ==
    IF rows = <<>>
    THEN [breakdown |-> NewIncomeBreakdown, deductions |-> <<>>, tax_paid |-> 0]
    ELSE LET acc == TisWithCategory(SubSeq(rows, 1, Len(rows) - 1), col)
             row == rows[Len(rows)]
         IN  IF NotSkipped(row)
             THEN TisAdd(acc, LabelText(row), Strip(PyStr(Cell(df, row, col))),
                         PyFloat(AmountOf(row)))
             ELSE acc

\* C17: the optional columns are found by exact header name only.  When
\* read_tis meets no header that is exactly "category", "section" or
\* "description" (the header is "Category", say), it has no category column:
\* every income-typed row goes to other_income, every deduction-typed row
\* under the one key "DEDUCTION"; income total, sum of deductions and tax
\* paid are what they would be with the column recognised.
C17_OptionalColumnsExactOnly ==
    (reader = "tis" /\ InLoop /\ NoExactOptional) =>
        /\ extra_col = NoColumn
        /\ breakdown.interest_income = 0
        /\ breakdown.dividend_income = 0
        /\ breakdown.rental_income = 0
        /\ breakdown.other_income = AmountsOf(TisTaken(TisIncomeTypes))
        /\ \A k \in DOMAIN breakdown.details : breakdown.details[k].Category = <<>>
        /\ DOMAIN deductions \subseteq {<<"D","E","D","U","C","T","I","O","N">>}
        /\ (TisTaken(TisDeductionTypes) # <<>>) =>
               /\ DOMAIN deductions = {<<"D","E","D","U","C","T","I","O","N">>}
               /\ deductions[<<"D","E","D","U","C","T","I","O","N">>] = AmountsOf(TisTaken(TisDeductionTypes))
        /\ \A c \in OtherSpellings :
               LET with == TisWithCategory(Seen, c)
               IN  /\ IncomeTotal(breakdown) = IncomeTotal(with.breakdown)
                   /\ SumValues(deductions) = SumValues(with.deductions)
                   /\ tax_paid = with.tax_paid

\* read_tis has returned a table whose header "Category" it did not take:
\* the interest row is in other_income and the 80C row under "DEDUCTION",
\* where the recognised column would have given interest_income and "80C"
C17_Witness ==
    /\ reader = "tis" /\ pc = "returned"
    /\ <<"C","a","t","e","g","o","r","y">> \in Range(df.columns)
    /\ NoExactOptional
    /\ ret.value.income_breakdown.other_income = 120
    /\ ret.value.deductions = (<<"D","E","D","U","C","T","I","O","N">> :> 300)
    /\ TisWithCategory(df.rows, <<"C","a","t","e","g","o","r","y">>).breakdown.interest_income = 120
    /\ DOMAIN TisWithCategory(df.rows, <<"C","a","t","e","g","o","r","y">>).deductions = {<<"8","0","C">>}

====
